---- MODULE Spec2Model ----
(***************************************************************************)
(* FisInMa: assembly of the sensitivity matrix S and the covariance C      *)
(* (src/src/solving.py: get_S_matrix, calculate_fischer_observable and the *)
(* criteria) and the observable transform of the sensitivity plots         *)
(* (src/FisInMa/plotting/plotting.py: plot_all_sensitivities,              *)
(* plot_all_sensitivities2).                                               *)
(*                                                                         *)
(* Arrays are functions over 0-based index ranges, as in numpy.  A multi-  *)
(* index is a sequence of 0-based coordinates.  Real numbers are exact     *)
(* rationals <<numerator, denominator>> wherever the code divides.         *)
(***************************************************************************)
EXTENDS Integers, Sequences, FiniteSets, TLC

(* ------------------------------ bounds -------------------------------- *)
\* largest number of input dimensions of a design grid (len(fsm.q_values))
MaxDims == 2
\* largest number of values of one input dimension (len(fsm.q_values[i]))
MaxK == 2
\* largest number of measurement times per combination (fsm.times.shape[-1])
MaxT == 3
\* largest number of parameters (len(fsm.parameters))
MaxP == 2
\* largest number of states (len(sol.ode_x0))
MaxNx == 2
\* largest size of the observable
MaxObs == 2
\* largest number of output times of an integration for the plots
\* (np.linspace gives 50)
MaxNt == 3

VARIABLES
    \* ---- solving.py: inputs (the FischerModel fsm and the call) ----
    q_values,    \* fsm.q_values: per input dimension, its values
    times,       \* fsm.times: per index combination, its T measurement times
    n_par,       \* len(fsm.parameters)
    y0,          \* fsm.y0_t0[0]
    bad_input,   \* index of the value of the first input for which the
                 \* integration does not converge, or -1
    garbage,     \* what a run's unfilled integrator output holds
    observable,  \* fsm.observable: the selected criterion, once read
    covar,       \* argument covar of calculate_fischer_observable, once read
    \* ---- solving.py: locals of get_S_matrix ----
    pc,          \* position in the code
    pos,         \* number of combinations the for loop has completed
    S,           \* the tensor S of shape (n_p, T, k1, ..., km)
    error_n,     \* the tensor error_n of shape (T, k1, ..., km)
    solutions,   \* the list solutions
    calls,       \* the integrator invocations made so far, in order
    nFailed,     \* how many of them did not converge
    exc,         \* the exception that ended the run, or "none"
    \* ---- solving.py: results ----
    S2,          \* S after the reshape to 2D (line 40)
    error_flat,  \* error_n after the reshape to 1D (line 41)
    C,           \* the C returned by get_S_matrix (its diagonal)
    C_out,       \* the C returned by calculate_fischer_observable (its diagonal)
    obs,         \* the score returned by calculate_fischer_observable
    \* ---- plotting.py: inputs (the FisherResults fsr and one of its sol) ----
    routine,     \* the plotting function the caller invoked
    fsr,         \* which optional functions of fsr are callable, and its flag
    n_x,         \* len(sol.ode_x0)
    n_p,         \* len(sol.parameters)
    obs_size,    \* size of the observable the obs_* functions describe
    n_t,         \* number of output times of the integration (res.t.size)
    \* ---- plotting.py: locals ----
    ppc,         \* position in the code
    n_p_full,    \* n_p_full
    n_obs,       \* n_obs
    x0_full,     \* x0_full
    res_y,       \* res.y
    s,           \* s
    sens_obs,    \* obs (line 184)
    integrations,\* number of calls of solve_ivp so far
    figures,     \* number of figures saved so far
    pexc         \* the exception that ended the routine, or "none"

solvVars == <<q_values, times, n_par, y0, bad_input, garbage, observable, covar,
              pc, pos, S,
              error_n, solutions, calls, nFailed, exc, S2, error_flat, C, C_out,
              obs>>

plotVars == <<routine, fsr, n_x, n_p, obs_size, n_t, ppc, n_p_full, n_obs,
              x0_full, res_y, s, sens_obs, integrations, figures, pexc>>

vars == <<solvVars, plotVars>>

(* --------------------------- rational numbers -------------------------- *)
Abs(a) == IF a < 0 THEN -a ELSE a

RECURSIVE GCD(_, _)
GCD(a, b) == IF b = 0 THEN a ELSE GCD(b, a % b)

\* n/d in lowest terms with a positive denominator (d # 0)
Rat(n, d) ==
    LET sn == IF d < 0 THEN -n ELSE n
        sd == Abs(d)
        g  == GCD(Abs(sn), sd)
    IN  <<sn \div g, sd \div g>>

RInt(a) == <<a, 1>>
RAdd(x, y) ==
    LET g == GCD(x[2], y[2])
    IN  Rat(x[1] * (y[2] \div g) + y[1] * (x[2] \div g), (x[2] \div g) * y[2])
RMul(x, y) ==
    LET g1 == GCD(Abs(x[1]), y[2])
        g2 == GCD(Abs(y[1]), x[2])
    IN  Rat((x[1] \div g1) * (y[1] \div g2), (x[2] \div g2) * (y[2] \div g1))
RInv(x) == Rat(x[2], x[1])
RZero == RInt(0)
ROne == RInt(1)

(* ------------------------------ numpy ---------------------------------- *)
RECURSIVE SeqProd(_)
SeqProd(q) == IF q = <<>> THEN 1 ELSE Head(q) * SeqProd(Tail(q))

RECURSIVE SeqSum(_)
SeqSum(q) == IF q = <<>> THEN 0 ELSE Head(q) + SeqSum(Tail(q))

\* all multi-indices of an array of shape `shape`
RECURSIVE IndexSet(_)
IndexSet(shape) ==
    IF shape = <<>> THEN {<<>>}
    ELSE {<<j>> \o r : j \in 0..(Head(shape) - 1), r \in IndexSet(Tail(shape))}

\* position of multi-index mi in the C-order (row-major) flattening of an
\* array of shape `shape`: what reshape to 1D does
RECURSIVE Ravel(_, _)
Ravel(shape, mi) ==
    IF shape = <<>> THEN 0
    ELSE Head(mi) * SeqProd(Tail(shape)) + Ravel(Tail(shape), Tail(mi))

\* the multi-index at flat position c of an array of shape `shape`
RECURSIVE Unravel(_, _)
Unravel(shape, c) ==
    IF shape = <<>> THEN <<>>
    ELSE LET stride == SeqProd(Tail(shape))
         IN  <<c \div stride>> \o Unravel(Tail(shape), c % stride)

\* itertools.product(range(k1), ..., range(km)) as the sequence it yields:
\* for each value of the first range in order, every tuple of the rest
RECURSIVE Product(_)
Product(shape) ==
    IF shape = <<>> THEN << <<>> >>
    ELSE LET rest == Product(Tail(shape))
             Block[j \in 0..(Head(shape) - 1)] ==
                 [n \in 1..Len(rest) |-> <<j>> \o rest[n]]
             RECURSIVE Cat(_)
             Cat(j) == IF j = Head(shape) THEN <<>> ELSE Block[j] \o Cat(j + 1)
         IN  Cat(0)

(* --------------------------- the FischerModel --------------------------- *)
\* len(a) of a 0-based array
Size(a) == Cardinality(DOMAIN a)
\* tuple(len(x) for x in fsm.q_values)
GridShape == [i \in 1..Len(q_values) |-> Size(q_values[i])]
\* fsm.times.shape[-1]
NTimes == Size(times[[i \in 1..Len(q_values) |-> 0]])
\* number of index combinations of the grid
NCombos == SeqProd(GridShape)
\* the initial time t0 of fsm.y0_t0
T0 == 0

\* Q = [fsm.q_values[i][j] for i, j in enumerate(index)]
QOf(index) == [i \in 1..Len(index) |-> q_values[i][index[i]]]

\* The solution of the augmented ODE for inputs Q at time tau: component 0
\* is the state, component p >= 1 the sensitivity to parameter p.  The ODE
\* is the caller's (fsm.ode_func); this family takes few, small integer
\* values, starts at y0 with zero sensitivities and varies with the inputs,
\* the time and the parameter.
Trajectory(Q, tau, comp) ==
    IF comp = 0 THEN y0 + 4 * ((SeqSum(Q) * (tau - T0)) % 2)
    ELSE ((tau - T0) * (comp + SeqSum(Q))) % 3

\* what an integration that did not converge leaves in an output row it
\* never reached: odeint warns and returns the array as it is
Garbage == {0, 4}

\* the integration for inputs Q converges
Converges(Q) == bad_input = -1 \/ Q[1] # q_values[1][bad_input]

\* odeint(fsm.ode_func, y0, np.insert(t, 0, t0), args=(Q, ...)).T[:, 1:]
\* rows: component 0..n_p, columns: the T times of t (the row of t0 dropped)
Odeint(Q, t, conv, g) ==
    LET tt == [n \in 0..Size(t) |-> IF n = 0 THEN T0 ELSE t[n - 1]]
        full == [c \in 0..n_par |-> [n \in 0..Size(t) |->
                    IF n = 0 \/ conv THEN Trajectory(Q, tt[n], c) ELSE g]]
    IN  [c \in 0..n_par |-> [n \in 0..(Size(t) - 1) |-> full[c][n + 1]]]

\* S[(slice(None), slice(None)) + index] = r[1:]
AssignS(Sold, index, r) ==
    [mi \in DOMAIN Sold |->
        IF SubSeq(mi, 3, Len(mi)) = index THEN r[mi[1] + 1][mi[2]]
        ELSE Sold[mi]]

\* r[0].reshape(T, 1) * 0.25, column 0
ErrorValue(r) == [n \in DOMAIN r[0] |-> RMul(Rat(1, 4), RInt(r[0][n]))]

\* Shape of the selection error_n[:, index]: the tuple index is an integer
\* array indexing axis 1, so the selection is (T, len(index), k2, ..., km).
SelectionShape(index) == <<NTimes, Len(index)>> \o Tail(GridShape)

\* "IndexError" when an element of index is out of bounds for axis 1 (size
\* k1); "ValueError" when the value of shape (T, 1) does not broadcast to the
\* selection; else "none"
ErrorAssignRaises(index) ==
    LET sel == SelectionShape(index)
    IN  IF \E b \in 1..Len(index) : index[b] >= GridShape[1] THEN "IndexError"
        ELSE IF NTimes # 1 /\ NTimes # sel[Len(sel) - 1] THEN "ValueError"
        ELSE "none"

\* error_n[:, index] = r[0].reshape(T, 1) * 0.25 when it does not raise.
\* Element (a, b, c2, ..., cm) of the selection is error_n[a, index[b], c2,
\* ..., cm]; the value broadcasts along every axis but the second to last,
\* whose coordinate picks the time (a repeated index keeps the last write).
AssignError(Eold, index, r) ==
    LET val == ErrorValue(r)
        sel == SelectionShape(index)
        Hits(mi) == {b \in 1..Len(index) : index[b] = mi[2]}
        Last(mi) == CHOOSE b \in Hits(mi) : \A c \in Hits(mi) : c <= b
        Coord(mi) == <<mi[1], Last(mi) - 1>> \o SubSeq(mi, 3, Len(mi))
        Pick(mi) == IF NTimes = 1 THEN 0 ELSE Coord(mi)[Len(sel) - 1]
    IN  [mi \in DOMAIN Eold |->
            IF Hits(mi) = {} THEN Eold[mi] ELSE val[Pick(mi)]]

\* S.reshape((len(fsm.parameters), np.prod(S.shape[1:])))
ReshapeS(Sold) ==
    LET inner == <<NTimes>> \o GridShape
    IN  [p \in 0..(n_par - 1) |-> [c \in 0..(SeqProd(inner) - 1) |->
            Sold[<<p>> \o Unravel(inner, c)]]]

\* error_n.reshape(np.prod(error_n.shape))
ReshapeError(Eold) ==
    LET inner == <<NTimes>> \o GridShape
    IN  [c \in 0..(SeqProd(inner) - 1) |-> Eold[Unravel(inner, c)]]

\* np.eye(n), by its diagonal
Eye(n) == [c \in 0..(n - 1) |-> ROne]

\* cov_matrix = np.eye(len(error_n), len(error_n)) * error_n**2, by its diagonal
CovMatrix(err) == [c \in DOMAIN err |-> RMul(err[c], err[c])]

\* np.linalg.inv of a diagonal matrix raises LinAlgError when it is singular
InvRaises(cov) == \E c \in DOMAIN cov : cov[c] = RZero
Inv(cov) == [c \in DOMAIN cov |-> RInv(cov[c])]

(* ------------------------------ criteria -------------------------------- *)
RECURSIVE RSum(_, _, _)
RSum(f, lo, hi) == IF lo > hi THEN RZero ELSE RAdd(f[lo], RSum(f, lo + 1, hi))

\* F = (S.dot(C)).dot(S.T), C given by its diagonal
FisherMatrix(Sm, Cd) ==
    [p \in DOMAIN Sm |-> [q \in DOMAIN Sm |->
        LET term(c) == RMul(RMul(RInt(Sm[p][c]), Cd[c]), RInt(Sm[q][c]))
        IN  RSum([ix \in 0..(Size(Cd) - 1) |-> term(ix)], 0, Size(Cd) - 1)]]

\* np.linalg.det, by expansion along the first row
RECURSIVE Det(_)
Det(M) ==
    LET n == Size(M)
        Minor(k) == [i \in 0..(n - 2) |-> [j \in 0..(n - 2) |->
                        M[i + 1][IF j < k THEN j ELSE j + 1]]]
        term(k) == RMul(RInt(IF k % 2 = 0 THEN 1 ELSE -1),
                        RMul(M[0][k], Det(Minor(k))))
    IN  IF n = 0 THEN ROne ELSE RSum([ix \in 0..(n - 1) |-> term(ix)], 0, n - 1)

fischer_determinant(Sm, Cd) == Det(FisherMatrix(Sm, Cd))

\* np.sum(np.linalg.eigvals(F)): the eigenvalues of F sum to its trace
fischer_sumeigenval(Sm, Cd) ==
    LET F == FisherMatrix(Sm, Cd)
        diag(p) == F[p][p]
    IN  RSum([ix \in 0..(Size(F) - 1) |-> diag(ix)], 0, Size(F) - 1)

Criteria == {"fischer_determinant", "fischer_sumeigenval"}

\* fsm.observable(fsm, S, C)
Observable(name, Sm, Cd) ==
    IF name = "fischer_determinant" THEN fischer_determinant(Sm, Cd)
    ELSE fischer_sumeigenval(Sm, Cd)

\* the default of the argument covar of calculate_fischer_observable
DefaultCovar == FALSE

\* the selection with the flag ignored: the C of get_S_matrix is always kept
SelectC_KeepsCovariance(cv, Cd, Sm) == Cd

\* if covar == False: C = np.eye(S.shape[1])
SelectC(cv, Cd, Sm) == IF cv = FALSE THEN Eye(Size(Sm[0])) ELSE Cd

(* --------------------------- get_S_matrix ------------------------------- *)
\* the design grids: m input dimensions of k_i values each; value j of
\* dimension i is 10 * i + j + 1
Grids ==
    UNION {[1..m -> 1..MaxK] : m \in 1..MaxDims}
GridValues(shape) ==
    [i \in 1..Len(shape) |-> [j \in 0..(shape[i] - 1) |-> 10 * i + j + 1]]
\* the times of a combination: T non-decreasing times, the first one
\* t0 + the sum of the combination's indices
GridTimes(shape, T) ==
    [index \in IndexSet(shape) |-> [n \in 0..(T - 1) |-> T0 + SeqSum(index) + n]]

SolvInit ==
    /\ \E shape \in Grids, T \in 1..MaxT :
          /\ q_values = GridValues(shape)
          /\ bad_input \in -1..(shape[1] - 1)
          /\ times = GridTimes(shape, T)
          /\ n_par \in 1..MaxP
          /\ S = [mi \in IndexSet(<<n_par, T>> \o shape) |-> 0]
          /\ error_n = [mi \in IndexSet(<<T>> \o shape) |-> RZero]
    /\ y0 \in {0, 4}
    /\ garbage \in Garbage
    /\ bad_input = -1 => garbage = 0
    /\ observable = "unread"
    /\ covar = DefaultCovar
    /\ pc = "loop"
    /\ pos = 0
    /\ solutions = <<>>
    /\ calls = <<>>
    /\ nFailed = 0
    /\ exc = "none"
    /\ S2 = <<>>
    /\ error_flat = <<>>
    /\ C = <<>>
    /\ C_out = <<>>
    /\ obs = RZero

\* one pass of the for loop over iter.product (lines 23-38)
LoopBody ==
    /\ pc = "loop"
    /\ pos < NCombos
    /\ LET index == Product(GridShape)[pos + 1]
           Q == QOf(index)
           t == times[index]
           r == Odeint(Q, t, Converges(Q), garbage)
           raised == ErrorAssignRaises(index)
       IN  /\ calls' = Append(calls, [Q |-> Q, t |-> t])
           /\ nFailed' = IF Converges(Q) THEN nFailed ELSE nFailed + 1
           /\ S' = AssignS(S, index, r)
           /\ IF raised # "none"
              THEN /\ pc' = "raised"
                   /\ exc' = raised
                   /\ UNCHANGED <<error_n, solutions, pos>>
              ELSE /\ error_n' = AssignError(error_n, index, r)
                   /\ solutions' = Append(solutions, [t |-> t, Q |-> Q, r |-> r])
                   /\ pos' = pos + 1
                   /\ UNCHANGED <<pc, exc>>
    /\ UNCHANGED <<q_values, times, n_par, y0, bad_input, garbage, observable,
                   covar, S2, error_flat, C, C_out, obs>>
    /\ UNCHANGED plotVars

\* lines 39-44: the reshapes, the covariance, its inverse and the return
Assemble ==
    /\ pc = "loop"
    /\ pos = NCombos
    /\ S2' = ReshapeS(S)
    /\ error_flat' = ReshapeError(error_n)
    /\ LET cov == CovMatrix(error_flat')
       IN  IF InvRaises(cov)
           THEN /\ pc' = "raised"
                /\ exc' = "LinAlgError"
                /\ UNCHANGED C
           ELSE /\ pc' = "returned"
                /\ C' = Inv(cov)
                /\ UNCHANGED exc
    /\ UNCHANGED <<q_values, times, n_par, y0, bad_input, garbage, observable,
                   covar, pos, S, error_n, solutions, calls, nFailed, C_out, obs>>
    /\ UNCHANGED plotVars

\* calculate_fischer_observable after its call of get_S_matrix returned
\* (lines 75-78), for the covar and the criterion of the call
Score ==
    /\ pc = "returned"
    /\ \E cv \in BOOLEAN, crit \in Criteria :
          /\ covar' = cv
          /\ observable' = crit
          /\ C_out' = SelectC(cv, C, S2)
          /\ obs' = Observable(crit, S2, C_out')
    /\ pc' = "done"
    /\ UNCHANGED <<q_values, times, n_par, y0, bad_input, garbage, pos, S,
                   error_n, solutions, calls, nFailed, exc, S2, error_flat, C>>
    /\ UNCHANGED plotVars

(* ------------------------- numpy arrays (plotting) ---------------------- *)
\* An n-dimensional array: its shape and its elements in C order.
Arr(shape, f) ==
    [shape |-> shape,
     data |-> [c \in 0..(SeqProd(shape) - 1) |-> f[Unravel(shape, c)]]]
At(A, mi) == A.data[Ravel(A.shape, mi)]
\* A.reshape(shape), the sizes agreeing
Reshape(A, shape) == [shape |-> shape, data |-> A.data]
\* A.reshape(lead + (-1,)) is possible
CanInfer(A, lead) == SeqProd(lead) # 0 /\ SeqProd(A.shape) % SeqProd(lead) = 0
\* the dimension numpy infers for the -1
Inferred(A, lead) == SeqProd(A.shape) \div SeqProd(lead)
\* np.swapaxes(A, u - 1, v - 1)
Swap(q, u, v) == [n \in 1..Len(q) |-> IF n = u THEN q[v] ELSE IF n = v THEN q[u] ELSE q[n]]
SwapAxes(A, u, v) ==
    LET el(mi) == At(A, Swap(mi, u, v))
    IN  Arr(Swap(A.shape, u, v), [ix \in IndexSet(Swap(A.shape, u, v)) |-> el(ix)])
\* np.concatenate([A, B], axis=0)
Concatenate(A, B) ==
    LET na == SeqProd(A.shape)
    IN  [shape |-> <<A.shape[1] + B.shape[1]>> \o Tail(A.shape),
         data |-> [c \in 0..(na + SeqProd(B.shape) - 1) |->
                      IF c < na THEN A.data[c] ELSE B.data[c - na]]]
\* A + B, same shapes
ArrAdd(A, B) == [shape |-> A.shape, data |-> [c \in DOMAIN A.data |-> A.data[c] + B.data[c]]]

RECURSIVE ISum(_, _, _)
ISum(f, lo, hi) == IF lo > hi THEN 0 ELSE f[lo] + ISum(f, lo + 1, hi)

(* ----------------- the model being plotted (fsr, sol) ------------------ *)
\* The quantities at output time i: state a, its sensitivity to parameter k
\* and to initial value b, and what the observable functions return.  They
\* are the caller's; these take few, small values and depend on every index.
StateAt(a, i) == 1 + ((a + i) % 3)
DxDp(a, k, i) == (1 + a + 2 * k + 3 * i) % 5
DxDx0(a, b, i) == (2 + 3 * a + b + i) % 5
\* obs_fun: g_j
ObsFun(j, i) == (j + i) % 3
\* obs_dgdp: dg_j/dp_k, returned as (n_obs, n_p)
ObsDgDp(j, k, i) == (j + 3 * k + 2 * i) % 4
\* obs_dgdx: dg_j/dx_a, returned as (n_x, n_obs)
ObsDgDx(a, j, i) == (1 + 2 * a + j + i) % 3
\* obs_dgdx0: dg_j/dx0_b, returned as (n_obs, n_x)
ObsDgDx0(j, b, i) == (3 + j + 2 * b + i) % 4
\* sol.parameters and sol.ode_x0
ParamValue(k) == k + 2
X0Value(a) == a + 1

\* callable(fsr.obs_fun) and callable(fsr.obs_dgdp) and callable(fsr.obs_dgdx)
HasObservable == fsr.obs_fun /\ fsr.obs_dgdp /\ fsr.obs_dgdx

\* n_p + (n_x if callable(fsr.ode_dfdx0) else 0)
NPFull == n_p + (IF fsr.ode_dfdx0 THEN n_x ELSE 0)

\* n_obs: the size of obs_fun's value when the observable and its two
\* derivatives are callable, else n_x
NObs == IF HasObservable THEN obs_size ELSE n_x

\* np.concatenate((sol.ode_x0, np.zeros(n_x * n_p), np.ones(n_x))), or
\* without the ones when ode_dfdx0 is not callable
X0Full ==
    LET len == n_x + n_x * n_p + (IF fsr.ode_dfdx0 THEN n_x ELSE 0)
    IN  [c \in 0..(len - 1) |->
            IF c < n_x THEN X0Value(c)
            ELSE IF c < n_x + n_x * n_p THEN 0 ELSE 1]

\* What ode_rhs integrates in row c of the augmented state, at output time
\* i: rows 0..n_x-1 are the state, the next n_x*n_p rows dx_a/dp_k at row
\* a*n_p + k, and each of the n_x rows started at one the sensitivity of a
\* state to its own initial value.
OdeRhsRow(c, i) ==
    LET q == c - n_x
    IN  IF c < n_x THEN StateAt(c, i)
        ELSE IF q < n_x * n_p THEN DxDp(q \div n_p, q % n_p, i)
        ELSE DxDx0(q - n_x * n_p, q - n_x * n_p, i)

\* res.y of solve_ivp(ode_rhs, ..., x0_full, t_eval=t_values, ...): one row
\* per entry of x0_full, one column per output time
SolveIvp(x0, nt) ==
    LET el(mi) == OdeRhsRow(mi[1], mi[2])
    IN  Arr(<<Size(x0), nt>>, [ix \in IndexSet(<<Size(x0), nt>>) |-> el(ix)])

\* r = np.array(res.y[n_x:])
SensRows(y) ==
    LET el(mi) == At(y, <<mi[1] + n_x, mi[2]>>)
    IN  Arr(<<y.shape[1] - n_x, y.shape[2]>>, [ix \in IndexSet(<<y.shape[1] - n_x, y.shape[2]>>) |-> el(ix)])

\* s = np.swapaxes(r.reshape((n_x, n_p_full, -1)), 0, 1)
SensTensor(y) ==
    LET r == SensRows(y)
    IN  SwapAxes(Reshape(r, <<n_x, n_p_full, Inferred(r, <<n_x, n_p_full>>)>>), 1, 2)

\* term1 (line 149)
Term1 ==
    LET el(mi) == ObsDgDp(mi[2], mi[3], mi[1])
    IN  SwapAxes(Reshape(Arr(<<n_t, n_obs, n_p>>, [ix \in IndexSet(<<n_t, n_obs, n_p>>) |-> el(ix)]), <<n_t, n_obs, n_p>>), 1, 3)

\* obs_dgdx(...).reshape((n_x, n_obs)).T.dot(s[lo:lo+cnt, :, i].T), stacked
\* over the times, reshaped to (n_t, n_obs, cnt) and its axes 0 and 2 swapped
ChainTerm(sOld, lo, cnt) ==
    LET el(mi) ==
            LET prod(a) == ObsDgDx(a, mi[2], mi[1]) * At(sOld, <<lo + mi[3], a, mi[1]>>)
            IN  ISum([ix \in 0..(n_x - 1) |-> prod(ix)], 0, n_x - 1)
    IN  SwapAxes(Reshape(Arr(<<n_t, n_obs, cnt>>, [ix \in IndexSet(<<n_t, n_obs, cnt>>) |-> el(ix)]), <<n_t, n_obs, cnt>>), 1, 3)

\* term2 (lines 152-159)
Term2(sOld) == ChainTerm(sOld, 0, n_p)

\* term1_add (lines 163-166)
Term1Add ==
    LET el(mi) == ObsDgDx0(mi[2], mi[3], mi[1])
    IN  SwapAxes(Reshape(Arr(<<n_t, n_obs, n_x>>, [ix \in IndexSet(<<n_t, n_obs, n_x>>) |-> el(ix)]), <<n_t, n_obs, n_x>>), 1, 3)

\* term2_add (lines 169-175)
Term2Add(sOld) == ChainTerm(sOld, n_p, n_x)

\* lines 147-182 when nothing raises
Transformed(sOld) ==
    IF fsr.ode_dfdx0 /\ fsr.obs_dgdx0
    THEN ArrAdd(Concatenate(Term1, Term1Add), Concatenate(Term2(sOld), Term2Add(sOld)))
    ELSE ArrAdd(Term1, Term2(sOld))

\* the exception lines 147-182 raise, or "none"
TransformRaises(sOld) ==
    LET short == sOld.shape[3] < n_t
    IN  IF HasObservable
        THEN IF short THEN "IndexError" ELSE "none"
        ELSE IF fsr.ode_dfdx0 /\ fsr.obs_dgdx0
        THEN IF (n_t * obs_size * n_x) % (n_obs * n_x) # 0 THEN "ValueError"
             ELSE IF ~fsr.obs_dgdx THEN "TypeError"
             ELSE IF obs_size # n_obs THEN "ValueError"
             ELSE IF short THEN "IndexError"
             ELSE "UnboundLocalError"
        ELSE "UnboundLocalError"

\* obs (line 184), shape (n_obs, n_t)
ObsValues ==
    LET el(mi) == ObsFun(mi[2], mi[1])
    IN  SwapAxes(Reshape(Arr(<<n_t, n_obs>>, [ix \in IndexSet(<<n_t, n_obs>>) |-> el(ix)]), <<n_t, n_obs>>), 1, 2)

\* params of the relative sensitivities (lines 187-190)
Params ==
    [c \in 0..((IF fsr.ode_dfdx0 THEN n_p + n_x ELSE n_p) - 1) |->
        IF c < n_p THEN ParamValue(c) ELSE X0Value(c - n_p)]

\* a float division: by zero numpy warns and yields inf or nan
FloatDiv(v, o) ==
    IF o = 0 THEN (IF v = 0 THEN "nan" ELSE "inf") ELSE Rat(v, o)

\* lines 192-197: s[ii] *= p for every parameter, s[:, ii] /= o for every
\* row of obs
Relative(sOld, ov) ==
    LET el(mi) == FloatDiv(At(sOld, mi) * Params[mi[1]], At(ov, <<mi[2], mi[3]>>))
    IN  Arr(sOld.shape, [ix \in IndexSet(sOld.shape) |-> el(ix)])

Routines == {"plot_all_sensitivities", "plot_all_sensitivities2"}

Flags == [obs_fun : BOOLEAN, obs_dgdp : BOOLEAN, obs_dgdx : BOOLEAN,
          obs_dgdx0 : BOOLEAN, ode_dfdx0 : BOOLEAN,
          relative_sensitivities : BOOLEAN]

EmptyArr == [shape |-> <<0>>, data |-> <<>>]

PlotInit ==
    /\ routine \in Routines
    /\ fsr \in Flags
    /\ n_x \in 1..MaxNx
    /\ n_p \in 1..MaxP
    /\ obs_size \in 1..MaxObs
    /\ n_t \in 1..MaxNt
    /\ ppc = "helpers"
    /\ n_p_full = 0
    /\ n_obs = 0
    /\ x0_full = <<>>
    /\ res_y = EmptyArr
    /\ s = EmptyArr
    /\ sens_obs = EmptyArr
    /\ integrations = 0
    /\ figures = 0
    /\ pexc = "none"

\* lines 71-80 and 120-133: the helper variables and x0_full
Helpers ==
    /\ ppc = "helpers"
    /\ n_p_full' = NPFull
    /\ n_obs' = IF routine = "plot_all_sensitivities2" THEN NObs ELSE n_obs
    /\ x0_full' = X0Full
    /\ ppc' = "integrate"
    /\ UNCHANGED <<routine, fsr, n_x, n_p, obs_size, n_t, res_y, s, sens_obs,
                   integrations, figures, pexc>>
    /\ UNCHANGED solvVars

\* lines 83-84 and 136-137: the integration
Integrate ==
    /\ ppc = "integrate"
    /\ res_y' = SolveIvp(x0_full, n_t)
    /\ integrations' = integrations + 1
    /\ ppc' = IF routine = "plot_all_sensitivities2" THEN "reshape" ELSE "plotraw"
    /\ UNCHANGED <<routine, fsr, n_x, n_p, obs_size, n_t, n_p_full, n_obs,
                   x0_full, s, sens_obs, figures, pexc>>
    /\ UNCHANGED solvVars

\* lines 141-146 of plot_all_sensitivities2
ReshapeResult ==
    /\ ppc = "reshape"
    /\ IF CanInfer(SensRows(res_y), <<n_x, n_p_full>>)
       THEN /\ s' = SensTensor(res_y)
            /\ ppc' = "transform"
            /\ UNCHANGED pexc
       ELSE /\ ppc' = "raised"
            /\ pexc' = "ValueError"
            /\ UNCHANGED s
    /\ UNCHANGED <<routine, fsr, n_x, n_p, obs_size, n_t, n_p_full, n_obs,
                   x0_full, res_y, sens_obs, integrations, figures>>
    /\ UNCHANGED solvVars

\* lines 147-182 of plot_all_sensitivities2
ChainRule ==
    /\ ppc = "transform"
    /\ LET raised == TransformRaises(s)
       IN  IF raised = "none"
           THEN /\ s' = Transformed(s)
                /\ ppc' = "normalize"
                /\ UNCHANGED pexc
           ELSE /\ ppc' = "raised"
                /\ pexc' = raised
                /\ UNCHANGED s
    /\ UNCHANGED <<routine, fsr, n_x, n_p, obs_size, n_t, n_p_full, n_obs,
                   x0_full, res_y, sens_obs, integrations, figures>>
    /\ UNCHANGED solvVars

\* lines 184-197 of plot_all_sensitivities2
Normalize ==
    /\ ppc = "normalize"
    /\ IF ~fsr.obs_fun
       THEN /\ ppc' = "raised"
            /\ pexc' = "TypeError"
            /\ UNCHANGED <<s, sens_obs>>
       ELSE /\ sens_obs' = ObsValues
            /\ IF ~fsr.relative_sensitivities
               THEN /\ ppc' = "plot"
                    /\ UNCHANGED <<s, pexc>>
               ELSE IF Size(Params) > s.shape[1]
               THEN /\ ppc' = "raised"
                    /\ pexc' = "IndexError"
                    /\ UNCHANGED s
               ELSE /\ s' = Relative(s, sens_obs')
                    /\ ppc' = "plot"
                    /\ UNCHANGED pexc
    /\ UNCHANGED <<routine, fsr, n_x, n_p, obs_size, n_t, n_p_full, n_obs,
                   x0_full, res_y, integrations, figures>>
    /\ UNCHANGED solvVars

\* lines 199-213 of plot_all_sensitivities2: one figure per (j, k) of
\* product(range(n_obs), range(n_p_full)) until s[k, j] is out of bounds
PlotLoop ==
    /\ ppc = "plot"
    /\ IF s.shape[1] < n_p_full
       THEN /\ figures' = s.shape[1]
            /\ ppc' = "raised"
            /\ pexc' = "IndexError"
       ELSE /\ figures' = n_obs * n_p_full
            /\ ppc' = "done"
            /\ UNCHANGED pexc
    /\ UNCHANGED <<routine, fsr, n_x, n_p, obs_size, n_t, n_p_full, n_obs,
                   x0_full, res_y, s, sens_obs, integrations>>
    /\ UNCHANGED solvVars

\* lines 86-110 of plot_all_sensitivities: res.y[n_x:].reshape((n_x,
\* n_p_full, -1))[j, k] is plotted against t, which matplotlib refuses when
\* their lengths differ
PlotRaw ==
    /\ ppc = "plotraw"
    /\ LET r == SensRows(res_y)
       IN  IF ~CanInfer(r, <<n_x, n_p_full>>) \/ Inferred(r, <<n_x, n_p_full>>) # n_t
           THEN /\ ppc' = "raised"
                /\ pexc' = "ValueError"
                /\ UNCHANGED <<s, figures>>
           ELSE /\ s' = Reshape(r, <<n_x, n_p_full, n_t>>)
                /\ figures' = n_x * n_p_full
                /\ ppc' = "done"
                /\ UNCHANGED pexc
    /\ UNCHANGED <<routine, fsr, n_x, n_p, obs_size, n_t, n_p_full, n_obs,
                   x0_full, res_y, sens_obs, integrations>>
    /\ UNCHANGED solvVars

\* the other program has not been started
PlotIdle ==
    /\ routine = "none" /\ fsr = <<>> /\ n_x = 0 /\ n_p = 0 /\ obs_size = 0
    /\ n_t = 0 /\ ppc = "idle" /\ n_p_full = 0 /\ n_obs = 0 /\ x0_full = <<>>
    /\ res_y = EmptyArr /\ s = EmptyArr /\ sens_obs = EmptyArr
    /\ integrations = 0 /\ figures = 0 /\ pexc = "none"

SolvIdle ==
    /\ q_values = <<>> /\ times = <<>> /\ n_par = 0 /\ y0 = 0
    /\ bad_input = -1 /\ garbage = 0
    /\ observable = "unread" /\ covar = DefaultCovar /\ pc = "idle" /\ pos = 0
    /\ S = <<>> /\ error_n = <<>> /\ solutions = <<>> /\ calls = <<>>
    /\ nFailed = 0 /\ exc = "none" /\ S2 = <<>> /\ error_flat = <<>>
    /\ C = <<>> /\ C_out = <<>> /\ obs = RZero

(* --------------------------- specifications ---------------------------- *)
\* a call of get_S_matrix or calculate_fischer_observable
Init == SolvInit /\ PlotIdle

Next == LoopBody \/ Assemble \/ Score

Spec == Init /\ [][Next]_vars

\* a call of plot_all_sensitivities or plot_all_sensitivities2 on results
\* with one entry in individual_results
InitPlot == PlotInit /\ SolvIdle

NextPlot ==
    Helpers \/ Integrate \/ ReshapeResult \/ ChainRule \/ Normalize \/ PlotLoop
    \/ PlotRaw

SpecPlot == InitPlot /\ [][NextPlot]_vars

(* ===================== claims about solving.py ========================= *)
\* the index combination at lexicographic position d, last index fastest
LexIndex(d) == Unravel(GridShape, d)
\* the value the integrator returned for combination d, component c, time t
Sample(d, c, t) == solutions[d + 1].r[c][t]
\* get_S_matrix has returned its result (to calculate_fischer_observable or
\* to another caller)
Returned == pc \in {"returned", "done"}
\* every integration made so far converged
Converged == nFailed = 0
\* the call of get_S_matrix is over: it returned or it raised
Finished == pc \in {"returned", "done", "raised"}

\* C1: in the S returned by get_S_matrix, the sample of the combination at
\* lexicographic position d and time index t is held in column d*T + t
\* (stated for the runs in which every integration converged).
C1_ColumnsByCombination ==
    (Returned /\ Converged) =>
        \A d \in 0..(NCombos - 1), t \in 0..(NTimes - 1), p \in 0..(n_par - 1) :
            S2[p][d * NTimes + t] = Sample(d, p + 1, t)

\* C2: the integrator is invoked exactly once for each index combination, in
\* lexicographic order with the last index fastest, with that combination's
\* input values and time array, and the returned solutions list has one
\* entry per combination in that order (stated for the runs in which every
\* integration converged).
C2_EveryCombinationIntegrated ==
    (Finished /\ Converged) =>
        /\ calls = [n \in 1..NCombos |->
                      [Q |-> QOf(LexIndex(n - 1)), t |-> times[LexIndex(n - 1)]]]
        /\ Returned =>
              /\ Len(solutions) = NCombos
              /\ \A n \in 1..NCombos :
                    /\ solutions[n].Q = QOf(LexIndex(n - 1))
                    /\ solutions[n].t = times[LexIndex(n - 1)]

\* C3: for any number of input dimensions the error stored for each
\* (combination, time) sample is 0.25 times the predicted state of that
\* combination at that time, at the flattened position of that sample's
\* column of S; processing a combination neither fails nor touches the
\* slots of another combination (those of a combination not yet processed
\* still hold their initial zero).  Stated for the runs in which every
\* integration converged.
C3_ErrorModelPerSample ==
    Converged =>
        /\ exc \notin {"IndexError", "ValueError"}
        /\ \A d \in 0..(NCombos - 1), t \in 0..(NTimes - 1) :
              error_n[<<t>> \o LexIndex(d)] =
                  IF d < pos THEN RMul(Rat(1, 4), RInt(Sample(d, 0, t))) ELSE RZero
        /\ Returned =>
              \A d \in 0..(NCombos - 1), t \in 0..(NTimes - 1) :
                  LET c == Ravel(<<NTimes>> \o GridShape, <<t>> \o LexIndex(d))
                  IN  /\ error_flat[c] = RMul(Rat(1, 4), RInt(Sample(d, 0, t)))
                      /\ \A p \in 0..(n_par - 1) : S2[p][c] = Sample(d, p + 1, t)

\* C4 as stated: with default arguments the score is the criterion applied to
\* F = S*C*S^T with C the inverse covariance of the default error model, and
\* the C returned is that matrix.
C4_DefaultUsesErrorModel ==
    (pc = "done" /\ covar = DefaultCovar) =>
        /\ C_out = C
        /\ obs = Observable(observable, S2, C)

\* C4 as amended: with default arguments (covar=False) the C returned is the
\* identity matrix with one row per column of S and the score is the
\* criterion applied to F = S*S^T; the inverse covariance of the error model
\* is used and returned only with covar=True.
C4_DefaultUsesIdentity ==
    pc = "done" =>
        LET Cd == IF covar = DefaultCovar THEN Eye(Size(S2[0])) ELSE C
        IN  /\ C_out = Cd
            /\ obs = Observable(observable, S2, Cd)

\* a default call has returned a score that differs from the one the
\* inverse covariance of the error model gives
C4_Witness ==
    /\ pc = "done"
    /\ covar = DefaultCovar
    /\ C # Eye(Size(S2[0]))
    /\ obs # Observable(observable, S2, C)

\* C5: no result is returned whose S columns or error entries were filled
\* from an integration that did not converge.
C5_FailurePropagates == Returned => nFailed = 0

\* some predicted value used for the error model is exactly zero
ZeroSample ==
    \E n \in 1..Len(solutions) : \E t \in 0..(NTimes - 1) : solutions[n].r[0][t] = 0

\* C6: when a predicted value is exactly zero, building C does not fail: the
\* run returns S and a C with one finite entry per column of S (stated for
\* the runs in which every integration converged).
C6_ZeroErrorFloored ==
    (Converged /\ ZeroSample /\ pos = NCombos /\ pc # "loop") =>
        /\ exc # "LinAlgError"
        /\ Returned
        /\ Size(C) = Size(S2[0])

(* ===================== claims about plotting.py ======================== *)
\* an observable is set but a derivative a requested feature needs is not
MissingDerivative ==
    /\ fsr.obs_fun
    /\ \/ ~fsr.obs_dgdx
       \/ ~fsr.obs_dgdp
       \/ fsr.ode_dfdx0 /\ ~fsr.obs_dgdx0

\* C7: in plot_all_sensitivities2 with no observable defined (obs_fun,
\* obs_dgdp or obs_dgdx absent) n_obs = n_x, the tensor used is the
\* integrated dx/dp unchanged, and the routine reaches its output loop
\* without reading a chain-rule term that was never computed and without
\* calling an absent function.
C7_RawStateDefault ==
    (routine = "plot_all_sensitivities2" /\ ~HasObservable) =>
        /\ pexc \notin {"UnboundLocalError", "TypeError"}
        /\ ppc \in {"plot", "done"} =>
              /\ n_obs = n_x
              /\ \A k \in 0..(n_p - 1), a \in 0..(n_x - 1), i \in 0..(n_t - 1) :
                    At(s, <<k, a, i>>) = DxDp(a, k, i)

\* C8: when a derivative function a requested feature needs is missing, the
\* routine fails before the first integrator call: no integration is made
\* and no figure of a downgraded result is written.
C8_ConfigErrorBeforeIntegration ==
    (routine = "plot_all_sensitivities2" /\ MissingDerivative) =>
        /\ integrations = 0
        /\ figures = 0

\* C9: with ode_dfdx0 supplied the sensitivity part of the augmented state
\* has n_x*(n_p + n_x) entries per time point, so the integrated result
\* reshapes to [n_x, n_p + n_x, time] with as many times as were requested,
\* entry [j, k, i] being the sensitivity of state j to parameter or initial
\* value k at time i.
C9_SensitivityBlockSize ==
    fsr.ode_dfdx0 =>
        /\ ppc # "helpers" => Size(x0_full) - n_x = n_x * (n_p + n_x)
        /\ ppc \notin {"helpers", "integrate"} =>
              LET r == SensRows(res_y)
                  lead == <<n_x, n_p + n_x>>
              IN  /\ CanInfer(r, lead)
                  /\ Inferred(r, lead) = n_t
                  /\ \A j \in 0..(n_x - 1), k \in 0..(n_p + n_x - 1), i \in 0..(n_t - 1) :
                        At(Reshape(r, lead \o <<n_t>>), <<j, k, i>>) =
                            IF k < n_p THEN DxDp(j, k, i) ELSE DxDx0(j, k - n_p, i)

\* dg_j/dp_k + sum over the states a of dg_j/dx_a * dx_a/dp_k at time i
ChainRuleParam(k, j, i) ==
    LET prod(a) == ObsDgDx(a, j, i) * DxDp(a, k, i)
    IN  ObsDgDp(j, k, i) + ISum([ix \in 0..(n_x - 1) |-> prod(ix)], 0, n_x - 1)

\* dg_j/dx0_b + sum over the states a of dg_j/dx_a * dx_a/dx0_b at time i
ChainRuleInitial(b, j, i) ==
    LET prod(a) == ObsDgDx(a, j, i) * DxDx0(a, b, i)
    IN  ObsDgDx0(j, b, i) + ISum([ix \in 0..(n_x - 1) |-> prod(ix)], 0, n_x - 1)

\* C10: with an observable and its derivatives defined, for all n_x, n_obs,
\* n_p and time counts the routine builds the transformed tensor, whose
\* entry [k, j, i] is the chain rule for parameter k < n_p and, with
\* initial-condition sensitivities enabled, for initial value k - n_p at
\* n_p <= k < n_p + n_x.
C10_ChainRule ==
    (/\ routine = "plot_all_sensitivities2"
     /\ HasObservable
     /\ fsr.ode_dfdx0 => fsr.obs_dgdx0) =>
        /\ pexc = "none"
        /\ ppc = "normalize" =>
              /\ s.shape = <<n_p_full, n_obs, n_t>>
              /\ \A k \in 0..(n_p_full - 1), j \in 0..(n_obs - 1), i \in 0..(n_t - 1) :
                    At(s, <<k, j, i>>) =
                        IF k < n_p THEN ChainRuleParam(k, j, i)
                        ELSE ChainRuleInitial(k - n_p, j, i)

====
